---- MODULE Spec2Model ----
(***************************************************************************)
(* Model of merchant_voc_categorize_streamlit_report_v5_final.py: the      *)
(* Streamlit VOC report.  One run of main() is a sequence of steps (pc);   *)
(* the CSV file on disk, the st.cache_data memo of load_data and the       *)
(* widget values persist between runs.                                     *)
(*                                                                         *)
(* Conventions.  Every cell value is a string.  The Korean literals of the *)
(* source are written romanised (the lexer takes ASCII strings only):      *)
(*   '감정' gamjeong, '대분류' daebunryu, '중분류' jungbunryu,             *)
(*   '긍정' geungjeong, '중립' jungrip, '부정' bujeong, '전체' jeonche,    *)
(*   '현월' hyeonwol, '25년 누적' 25nyeon nujeok.                          *)
(* A missing value (pandas NaN / NaT) is the string NaN; a cell pandas     *)
(* read as a number n is written "#n", distinct from the text "n".         *)
(* A ratio is kept exact, as [num, den] (the code's float is num/den).     *)
(***************************************************************************)
EXTENDS Integers, Sequences, FiniteSets, TLC

VARIABLES file, mtime, cache, pc, auto_refresh, manual_refresh, period_type,
          df, filtered, view, rendered

vars == <<file, mtime, cache, pc, auto_refresh, manual_refresh, period_type,
          df, filtered, view, rendered>>

-----------------------------------------------------------------------------
(* Literals of the source *)

NaN == "NaN"
NoFile == [header |-> <<>>, rows |-> <<>>]
None == [ok |-> FALSE]

GAMJEONG == "gamjeong"
DAEBUNRYU == "daebunryu"
JUNGBUNRYU == "jungbunryu"
GEUNGJEONG == "geungjeong"
JUNGRIP == "jungrip"
BUJEONG == "bujeong"
JEONCHE == "jeonche"
HYEONWOL == "hyeonwol"
NUJEOK == "25nyeon nujeok"
NUJEOK_LABEL == "2025nyeon nujeok"
SEP == " > "

TARGET_YEAR == 2025

date_columns ==
    <<"voc_start_dt", "created_at", "date", "timestamp", "created_date",
      "voc_date", "analysis_date", "processed_date">>

emotion_mappings ==
    [k \in {"positive", "negative", "neutral", "pos", "neg", "neu", "1", "0", "-1"} |->
        CASE k \in {"positive", "pos", "1"} -> GEUNGJEONG
          [] k \in {"negative", "neg", "-1"} -> BUJEONG
          [] OTHER -> JUNGRIP]

column_mappings ==
    << <<"major_category", DAEBUNRYU>>, <<"minor_category", JUNGBUNRYU>>,
       <<"category_major", DAEBUNRYU>>, <<"category_minor", JUNGBUNRYU>>,
       <<"main_category", DAEBUNRYU>>, <<"sub_category", JUNGBUNRYU>> >>

-----------------------------------------------------------------------------
(* Sequence helpers *)

Range(s) == {s[i] : i \in DOMAIN s}

RECURSIVE Filter(_, _)
\* the subsequence of s at the positions whose element is in the set keep
Filter(s, keep) ==
    IF s = <<>> THEN <<>>
    ELSE IF Head(s) \in keep THEN <<Head(s)>> \o Filter(Tail(s), keep)
         ELSE Filter(Tail(s), keep)

RECURSIVE Unique(_)
\* Series.unique(): the distinct values in order of first appearance
Unique(s) ==
    IF s = <<>> THEN <<>>
    ELSE LET u == Unique(SubSeq(s, 1, Len(s) - 1))
         IN IF s[Len(s)] \in Range(u) THEN u ELSE Append(u, s[Len(s)])

Count(s, v) == Cardinality({i \in DOMAIN s : s[i] = v})

RECURSIVE SumSeq(_)
SumSeq(s) == IF s = <<>> THEN 0 ELSE Head(s) + SumSeq(Tail(s))

Col(rows, c) == [i \in DOMAIN rows |-> rows[i][c]]

\* Series.dropna()
NotNa(s) == Filter(s, Range(s) \ {NaN})

\* Series.nunique(): distinct non-missing values
NUnique(s) == Cardinality(Range(s) \ {NaN})

\* pandas elementwise ==: a missing value equals nothing, itself included
Eq(a, b) == a # NaN /\ b # NaN /\ a = b

RECURSIVE Insert(_, _, _)
\* index x placed in the index list s (sorted by key) after every index whose
\* key is not greater: equal keys keep their order
Insert(s, x, key) ==
    IF s = <<>> THEN <<x>>
    ELSE IF key[Head(s)] <= key[x] THEN <<Head(s)>> \o Insert(Tail(s), x, key)
         ELSE <<x>> \o s

RECURSIVE SortIdx(_, _)
\* the indices 1..n ordered by ascending key, stably
SortIdx(n, key) ==
    IF n = 0 THEN <<>> ELSE Insert(SortIdx(n - 1, key), n, key)

\* s in ascending order of key (key[i] is the integer key of s[i]), stably
SortBy(s, key) == LET p == SortIdx(Len(s), key) IN [i \in DOMAIN s |-> s[p[i]]]

Head_n(s, n) == SubSeq(s, 1, IF Len(s) < n THEN Len(s) ELSE n)

-----------------------------------------------------------------------------
(* pandas: reading and parsing *)

NumericLiterals == {"1", "0", "-1"}

\* the dates pd.to_datetime parses, each with its month key (the text of
\* its Period), year and month; any other text is coerced to NaT
DateTable ==
    [s \in {"2025-01-15", "2025-02-10", "2024-12-31", "1970-01-01"} |->
        CASE s = "2025-01-15" -> [ym |-> "2025-01", year |-> 2025, month |-> 1]
          [] s = "2025-02-10" -> [ym |-> "2025-02", year |-> 2025, month |-> 2]
          [] s = "2024-12-31" -> [ym |-> "2024-12", year |-> 2024, month |-> 12]
          [] OTHER -> [ym |-> "1970-01", year |-> 1970, month |-> 1]]

\* pd.to_datetime(errors='coerce') of one value: a number is nanoseconds
\* since the epoch, unparsable text and a missing value give NaT
to_datetime(v) ==
    IF v \in {"#1", "#0", "#-1"} THEN "1970-01-01"
    ELSE IF v \in DOMAIN DateTable THEN v
    ELSE NaN

\* the .dt accessors; NaT has no period, and 0 stands for its missing year
\* and month (equal to no year)
to_period_M(d) == IF d = NaN THEN NaN ELSE DateTable[d].ym
dt_year(d) == IF d = NaN THEN 0 ELSE DateTable[d].year
dt_month(d) == IF d = NaN THEN 0 ELSE DateTable[d].month

\* pd.read_csv: an empty cell is missing; a column whose cells are all
\* integer literals is read as numbers, any other column as text.  Each row
\* keeps its position in the file as its index (_idx).
read_csv(f) ==
    LET cols == Range(f.header)
        numeric(c) ==
            LET cells == {f.rows[i][c] : i \in DOMAIN f.rows} \ {""}
            IN cells # {} /\ cells \subseteq NumericLiterals
        val(c, s) == IF s = "" THEN NaN ELSE IF numeric(c) THEN "#" \o s ELSE s
    IN [columns |-> f.header,
        rows |-> [i \in DOMAIN f.rows |->
                    [c \in cols \cup {"_idx"} |->
                        IF c = "_idx" THEN i ELSE val(c, f.rows[i][c])]]]

HasCol(d, c) == c \in Range(d.columns)

\* df[c] = values: the column is replaced in place, or appended as the last
SetCol(d, c, values) ==
    [columns |-> IF HasCol(d, c) THEN d.columns ELSE Append(d.columns, c),
     rows |-> [i \in DOMAIN d.rows |->
                 [k \in DOMAIN d.rows[i] \cup {c} |->
                     IF k = c THEN values[i] ELSE d.rows[i][k]]]]

\* df[mask]: the rows at the positions in keep, in order
Rows(d, keep) ==
    [columns |-> d.columns,
     rows |-> LET p == Filter([i \in DOMAIN d.rows |-> i], keep)
              IN [j \in DOMAIN p |-> d.rows[p[j]]]]

RECURSIVE FirstPresent(_, _)
\* the first name of the priority list that is a column; NaN when none is
FirstPresent(names, d) ==
    IF names = <<>> THEN NaN
    ELSE IF HasCol(d, Head(names)) THEN Head(names)
         ELSE FirstPresent(Tail(names), d)

\* Series.map(emotion_mappings).fillna(series), one value
NormalizeEmotion(v) ==
    IF v \in DOMAIN emotion_mappings THEN emotion_mappings[v] ELSE v

MapEmotion(d, c) == SetCol(d, GAMJEONG, [i \in DOMAIN d.rows |-> NormalizeEmotion(d.rows[i][c])])

RECURSIVE ApplyColumnMappings(_, _)
ApplyColumnMappings(d, pairs) ==
    IF pairs = <<>> THEN d
    ELSE LET eng == Head(pairs)[1]
             kor == Head(pairs)[2]
             d1 == IF HasCol(d, eng) /\ ~HasCol(d, kor)
                   THEN SetCol(d, kor, Col(d.rows, eng)) ELSE d
         IN ApplyColumnMappings(d1, Tail(pairs))

\* ParseDates without the dropna: the rows that did not parse stay, as NaT
ParseDatesKeepNaT(d, date_col) ==
    SetCol(d, date_col, [i \in DOMAIN d.rows |-> to_datetime(d.rows[i][date_col])])

\* lines 105-106: parse the date column, drop the rows that did not parse
ParseDates(d, date_col) ==
    LET parsed == SetCol(d, date_col, [i \in DOMAIN d.rows |-> to_datetime(d.rows[i][date_col])])
    IN Rows(parsed, {i \in DOMAIN parsed.rows : parsed.rows[i][date_col] # NaN})

DateColumns(d, date_col) ==
    LET a == SetCol(d, "year_month", [i \in DOMAIN d.rows |-> to_period_M(d.rows[i][date_col])])
        b == SetCol(a, "year", [i \in DOMAIN d.rows |-> dt_year(d.rows[i][date_col])])
        c == SetCol(b, "month", [i \in DOMAIN d.rows |-> dt_month(d.rows[i][date_col])])
    IN SetCol(c, "date_only", Col(d.rows, date_col))

\* lines 93-148 of load_data: the date column found, the frame after the
\* parsing, normalisation and aliasing, and its 2025 slice
Normalized(f) ==
    LET raw == read_csv(f)
        date_col == FirstPresent(date_columns, raw)
    IN IF date_col = NaN THEN [date_col |-> NaN, df |-> raw, df_2025 |-> raw]
       ELSE LET d1 == DateColumns(ParseDates(raw, date_col), date_col)
                d2 == IF HasCol(d1, GAMJEONG) THEN MapEmotion(d1, GAMJEONG)
                      ELSE IF HasCol(d1, "emotion") THEN MapEmotion(d1, "emotion")
                      ELSE IF HasCol(d1, "sentiment") THEN MapEmotion(d1, "sentiment")
                      ELSE d1
                d3 == ApplyColumnMappings(d2, column_mappings)
            IN [date_col |-> date_col, df |-> d3,
                df_2025 |-> Rows(d3, {i \in DOMAIN d3.rows : d3.rows[i]["year"] = TARGET_YEAR})]

\* lines 151-159: the counts st.info reports
Info(n) ==
    [total |-> Len(n.df.rows),
     n2025 |-> Len(n.df_2025.rows),
     emotions |-> IF HasCol(n.df_2025, GAMJEONG) THEN NUnique(Col(n.df_2025.rows, GAMJEONG)) ELSE 0,
     majors |-> IF HasCol(n.df_2025, DAEBUNRYU) THEN NUnique(Col(n.df_2025.rows, DAEBUNRYU)) ELSE 0]

\* load_data that reports an empty 2025 slice as a dataset
load_data_EmptySliceOk(f) ==
    LET n == Normalized(f)
    IN IF n.date_col = NaN THEN None
       ELSE [ok |-> TRUE, df |-> n.df_2025, date_col |-> n.date_col, info |-> Info(n)]

\* load_data: (df_2025, date_col) with the counts st.info reports, or
\* (None, None).  The st.info f-string formats min() of the date column, NaT
\* on an empty slice, whose strftime raises: the handler returns (None, None).
load_data(f) ==
    LET n == Normalized(f)
    IN IF n.date_col = NaN THEN None
       ELSE IF n.df_2025.rows = <<>> THEN None
       ELSE [ok |-> TRUE, df |-> n.df_2025, date_col |-> n.date_col, info |-> Info(n)]

-----------------------------------------------------------------------------
(* pandas: counting and grouping *)

\* the strings of the model in code-point order (the order pandas sorts
\* group keys in): digits and '#', capitals, lower case, Hangul
Collation ==
    <<"#-1", "#0", "#1", "-1", "0", "1", "1970-01", "1970-01-01", "2024-12",
      "2024-12-31", "2025-01", "2025-01-15", "2025-02", "2025-02-10",
      "A", "A > B", "B", "C", "angry", "hi", "nan", "neg", "negative", "neu",
      "neutral", "pos", "positive", "v1", "v2", "v3",
      GEUNGJEONG, BUJEONG, JUNGRIP>>

Rank(v) == CHOOSE i \in DOMAIN Collation : Collation[i] = v

RECURSIVE KeyRank(_)
\* the position of a key tuple in lexicographic order
KeyRank(key) ==
    IF key = <<>> THEN 0
    ELSE KeyRank(SubSeq(key, 1, Len(key) - 1)) * (Len(Collation) + 1) + Rank(key[Len(key)])

\* Series.value_counts(): the non-missing values with their counts, most
\* frequent first; equal counts keep the order of first appearance
value_counts(s) ==
    LET u == Unique(NotNa(s))
        c == [i \in DOMAIN u |-> [value |-> u[i], count |-> Count(s, u[i])]]
    IN SortBy(c, [i \in DOMAIN c |-> 0 - c[i].count])

\* value_counts().get(v, 0)
CountsGet(vc, v) ==
    IF \E i \in DOMAIN vc : vc[i].value = v
    THEN vc[CHOOSE i \in DOMAIN vc : vc[i].value = v].count
    ELSE 0

CountsSum(vc) == SumSeq([i \in DOMAIN vc |-> vc[i].count])

\* DataFrame.groupby(cols): the groups in ascending key order, each with the
\* positions of its rows; a row with a missing key is in no group
groupby(rows, cols) ==
    LET keyOf(i) == [k \in DOMAIN cols |-> rows[i][cols[k]]]
        live == Filter([i \in DOMAIN rows |-> i],
                       {i \in DOMAIN rows : NaN \notin Range(keyOf(i))})
        keys == Unique([j \in DOMAIN live |-> keyOf(live[j])])
        g == [j \in DOMAIN keys |->
                [key |-> keys[j],
                 members |-> Filter(live, {i \in DOMAIN rows : keyOf(i) = keys[j]})]]
    IN SortBy(g, [j \in DOMAIN g |-> KeyRank(g[j].key)])

\* groupby(cols).size()
groupby_size(rows, cols) ==
    LET g == groupby(rows, cols)
    IN [j \in DOMAIN g |-> [key |-> g[j].key, count |-> Len(g[j].members)]]

\* count / total * 100, 0 when there is nothing to divide by
Ratio(count, total) ==
    IF total > 0 THEN [num |-> count * 100, den |-> total] ELSE [num |-> 0, den |-> 1]

\* numpy rint of n / d: to the nearest integer, a tie to the even one
RoundHalfEven(n, d) ==
    LET q == n \div d
        r == n % d
    IN IF 2 * r < d THEN q
       ELSE IF 2 * r > d THEN q + 1
       ELSE IF q % 2 = 0 THEN q ELSE q + 1

\* RoundedRatio that cuts the digits after the first decimal instead of rounding
RoundedRatioTruncated(count, total) == (count * 1000) \div total

\* (count / total * 100).round(1), in tenths of a percent
RoundedRatio(count, total) == RoundHalfEven(count * 1000, total)

-----------------------------------------------------------------------------
(* The report's functions *)

\* Series.max() of text values: the last in sorted order
Max(S) == CHOOSE x \in S : \A y \in S : Rank(y) <= Rank(x)

\* get_filtered_data taking the month of the first row for the latest month
get_filtered_data_FirstRow(d, period) ==
    IF period = HYEONWOL
    THEN LET latest_month == d.rows[1]["year_month"]
         IN [df |-> Rows(d, {i \in DOMAIN d.rows : d.rows[i]["year_month"] = latest_month}),
             label |-> latest_month]
    ELSE [df |-> d, label |-> NUJEOK_LABEL]

\* lines 167-173, get_filtered_data: (filtered rows, label)
get_filtered_data(d, period) ==
    IF period = HYEONWOL
    THEN LET latest_month == Max(Range(Col(d.rows, "year_month")))
         IN [df |-> Rows(d, {i \in DOMAIN d.rows : d.rows[i]["year_month"] = latest_month}),
             label |-> latest_month]
    ELSE [df |-> d, label |-> NUJEOK_LABEL]

\* voc_id.nunique() when the id column exists, else the number of rows
VocCount(d, rows) ==
    IF HasCol(d, "voc_id") THEN NUnique(Col(rows, "voc_id")) ELSE Len(rows)

\* EmotionRatios with the counts taken over the whole dataset instead of the
\* month's rows, the total still the month's
EmotionRatiosWholeDf(d, month_rows) ==
    IF HasCol(d, GAMJEONG)
    THEN LET emotion_counts == value_counts(Col(d.rows, GAMJEONG))
             total_emotions == CountsSum(value_counts(Col(month_rows, GAMJEONG)))
         IN [positive_ratio |-> Ratio(CountsGet(emotion_counts, GEUNGJEONG), total_emotions),
             neutral_ratio |-> Ratio(CountsGet(emotion_counts, JUNGRIP), total_emotions),
             negative_ratio |-> Ratio(CountsGet(emotion_counts, BUJEONG), total_emotions)]
    ELSE [positive_ratio |-> Ratio(0, 0), neutral_ratio |-> Ratio(0, 0),
          negative_ratio |-> Ratio(0, 0)]

\* lines 207-214: the three sentiment ratios of one month
EmotionRatios(d, month_rows) ==
    IF HasCol(d, GAMJEONG)
    THEN LET emotion_counts == value_counts(Col(month_rows, GAMJEONG))
             total_emotions == CountsSum(emotion_counts)
         IN [positive_ratio |-> Ratio(CountsGet(emotion_counts, GEUNGJEONG), total_emotions),
             neutral_ratio |-> Ratio(CountsGet(emotion_counts, JUNGRIP), total_emotions),
             negative_ratio |-> Ratio(CountsGet(emotion_counts, BUJEONG), total_emotions)]
    ELSE [positive_ratio |-> Ratio(0, 0), neutral_ratio |-> Ratio(0, 0),
          negative_ratio |-> Ratio(0, 0)]

\* lines 196-225: one entry per month present, in ascending month order
MonthlyStats(d) ==
    LET u == Unique(Col(d.rows, "year_month"))
        months == SortBy(u, [i \in DOMAIN u |-> Rank(u[i])])
    IN [k \in DOMAIN months |->
          LET month_df == Rows(d, {i \in DOMAIN d.rows : d.rows[i]["year_month"] = months[k]})
              r == EmotionRatios(d, month_df.rows)
          IN [year_month |-> months[k],
              voc_count |-> VocCount(d, month_df.rows),
              classification_count |-> Len(month_df.rows),
              positive_ratio |-> r.positive_ratio,
              neutral_ratio |-> r.neutral_ratio,
              negative_ratio |-> r.negative_ratio]]

\* lines 268-280: the per-month counts of the three most frequent majors
CategoryTrend(d) ==
    IF HasCol(d, DAEBUNRYU)
    THEN LET category_trend == groupby_size(d.rows, <<"year_month", DAEBUNRYU>>)
             index == LET u == Unique([j \in DOMAIN category_trend |-> category_trend[j].key[1]])
                      IN u
             top_categories == Head_n(value_counts(Col(d.rows, DAEBUNRYU)), 3)
         IN [k \in DOMAIN top_categories |->
               [name |-> top_categories[k].value,
                y |-> [m \in DOMAIN index |->
                         SumSeq([j \in DOMAIN category_trend |->
                            IF category_trend[j].key = <<index[m], top_categories[k].value>>
                            THEN category_trend[j].count ELSE 0])]]]
    ELSE <<>>

create_trend_analysis(d) ==
    [section |-> "trend", state |-> "ok", monthly |-> MonthlyStats(d), traces |-> CategoryTrend(d)]

\* idxmax taking the last of the keys with the largest count
IdxMaxLast(sizes) ==
    sizes[CHOOSE j \in DOMAIN sizes :
            /\ \A k \in DOMAIN sizes : sizes[k].count <= sizes[j].count
            /\ \A k \in DOMAIN sizes : k > j => sizes[k].count < sizes[j].count].key

\* Series.idxmax() of a group-size table: the first key with the largest count
IdxMax(sizes) ==
    sizes[CHOOSE j \in DOMAIN sizes :
            /\ \A k \in DOMAIN sizes : sizes[k].count <= sizes[j].count
            /\ \A k \in DOMAIN sizes : k < j => sizes[k].count < sizes[j].count].key

\* lines 294-297 and 566-567: the negative share of the rows with a sentiment
NegativeRatio(rows) ==
    LET emotion_counts == value_counts(Col(rows, GAMJEONG))
    IN Ratio(CountsGet(emotion_counts, BUJEONG), CountsSum(emotion_counts))

create_overview(fd, period_label) ==
    [section |-> "overview", state |-> "ok",
     label |-> period_label,
     voc_count |-> VocCount(fd, fd.rows),
     classification_count |-> Len(fd.rows),
     negative_ratio |-> IF HasCol(fd, GAMJEONG) THEN NegativeRatio(fd.rows) ELSE Ratio(0, 0),
     top_category |->
        IF HasCol(fd, DAEBUNRYU) /\ HasCol(fd, JUNGBUNRYU)
        THEN LET category_counts == groupby_size(fd.rows, <<DAEBUNRYU, JUNGBUNRYU>>)
             IN IF category_counts # <<>> THEN IdxMax(category_counts) ELSE <<>>
        ELSE <<>>]

\* lines 406-423: for each of the five most frequent majors, its minors
MinorBreakdown(fd) ==
    LET top_categories == Head_n(value_counts(Col(fd.rows, DAEBUNRYU)), 5)
    IN [k \in DOMAIN top_categories |->
          LET cat_data == Rows(fd, {i \in DOMAIN fd.rows :
                                      Eq(fd.rows[i][DAEBUNRYU], top_categories[k].value)})
              subcat_counts == value_counts(Col(cat_data.rows, JUNGBUNRYU))
              total == CountsSum(subcat_counts)
              shown == Head_n(subcat_counts, 3)
          IN [category |-> top_categories[k].value,
              top |-> [j \in DOMAIN shown |->
                         [subcat |-> shown[j].value, count |-> shown[j].count,
                          ratio |-> Ratio(shown[j].count, total)]],
              others |-> IF Len(subcat_counts) > 3 THEN Len(subcat_counts) - 3 ELSE 0]]

create_distribution_overview(fd, period_label) ==
    [section |-> "distribution", state |-> "ok",
     label |-> period_label,
     emotion_counts |-> IF HasCol(fd, GAMJEONG) THEN value_counts(Col(fd.rows, GAMJEONG)) ELSE <<>>,
     category_counts |-> IF HasCol(fd, DAEBUNRYU) THEN value_counts(Col(fd.rows, DAEBUNRYU)) ELSE <<>>,
     sunburst |->
        IF HasCol(fd, DAEBUNRYU) /\ HasCol(fd, JUNGBUNRYU)
        THEN LET category_subcategory == groupby_size(fd.rows, <<DAEBUNRYU, JUNGBUNRYU>>)
                 top_major_categories == Head_n(value_counts(Col(fd.rows, DAEBUNRYU)), 10)
                 top == {top_major_categories[k].value : k \in DOMAIN top_major_categories}
             IN Filter(category_subcategory,
                       {g \in Range(category_subcategory) : g.key[1] \in top})
        ELSE <<>>,
     minors |-> IF HasCol(fd, DAEBUNRYU) /\ HasCol(fd, JUNGBUNRYU)
                THEN MinorBreakdown(fd) ELSE <<>>]

-----------------------------------------------------------------------------
(* The detail table *)

\* Series.astype(str), one value
Str(v) ==
    CASE v = NaN -> "nan"
      [] v = "#1" -> "1"
      [] v = "#0" -> "0"
      [] v = "#-1" -> "-1"
      [] OTHER -> v

\* the texts without the separator that category names are made of
PartAtoms == {"A", "B", "C", "nan"}

RECURSIVE Join(_)
\* ' > '.join(parts)
Join(parts) ==
    IF Len(parts) = 1 THEN parts[1]
    ELSE Join(SubSeq(parts, 1, Len(parts) - 1)) \o SEP \o parts[Len(parts)]

\* str.split(' > '): the separator-free parts that join back to s
Split(s) ==
    CHOOSE parts \in UNION {[1..n -> PartAtoms] : n \in 1..4} : Join(parts) = s

\* line 447: the 'major > minor' text of each row
CategoryCombinations(fd) ==
    [i \in DOMAIN fd.rows |->
        Str(fd.rows[i][DAEBUNRYU]) \o SEP \o Str(fd.rows[i][JUNGBUNRYU])]

\* lines 433-459: the options each selectbox offers
EmotionOptions(fd) ==
    IF HasCol(fd, GAMJEONG) THEN <<JEONCHE>> \o Unique(Col(fd.rows, GAMJEONG)) ELSE <<JEONCHE>>

CategoryOptions(fd) ==
    IF HasCol(fd, DAEBUNRYU) THEN <<JEONCHE>> \o Unique(Col(fd.rows, DAEBUNRYU)) ELSE <<JEONCHE>>

ComboOptions(fd) ==
    IF HasCol(fd, DAEBUNRYU) /\ HasCol(fd, JUNGBUNRYU)
    THEN <<JEONCHE>> \o Unique(CategoryCombinations(fd))
    ELSE <<JEONCHE>>

SortOptions == <<"descending", "ascending">>

\* lines 461-476: the rows the three filters leave
ApplyFilters(fd, emotion_filter, category_filter, combo_filter) ==
    LET t1 == IF emotion_filter # JEONCHE /\ HasCol(fd, GAMJEONG)
              THEN Rows(fd, {i \in DOMAIN fd.rows : Eq(fd.rows[i][GAMJEONG], emotion_filter)})
              ELSE fd
        t2 == IF category_filter # JEONCHE /\ HasCol(t1, DAEBUNRYU)
              THEN Rows(t1, {i \in DOMAIN t1.rows : Eq(t1.rows[i][DAEBUNRYU], category_filter)})
              ELSE t1
    IN IF combo_filter # JEONCHE
       THEN LET parts == Split(combo_filter)
            IN IF Len(parts) = 2
               THEN Rows(t2, {i \in DOMAIN t2.rows :
                                /\ Eq(t2.rows[i][DAEBUNRYU], parts[1])
                                /\ Eq(t2.rows[i][JUNGBUNRYU], parts[2])})
               ELSE t2
       ELSE t2

\* lines 480-486
RequiredCols(t) ==
    (IF HasCol(t, GAMJEONG) THEN <<GAMJEONG>> ELSE <<>>)
    \o (IF HasCol(t, DAEBUNRYU) THEN <<DAEBUNRYU>> ELSE <<>>)
    \o (IF HasCol(t, JUNGBUNRYU) THEN <<JUNGBUNRYU>> ELSE <<>>)

\* lines 489-511 when both aggregations are found: one row per group with
\* voc_id.nunique(), the count of the first column's values, and the ratio
SummaryTable(t, required_cols, sort_order) ==
    LET g == groupby(t.rows, required_cols)
        first == t.columns[1]
        agg == [j \in DOMAIN g |->
                  LET members == [m \in DOMAIN g[j].members |-> t.rows[g[j].members[m]]]
                  IN [key |-> g[j].key,
                      voc |-> NUnique(Col(members, "voc_id")),
                      count |-> Len(NotNa(Col(members, first)))]]
        sorted == SortBy(agg, [j \in DOMAIN agg |->
                     IF sort_order = "ascending" THEN agg[j].count ELSE 0 - agg[j].count])
        total_count == SumSeq([j \in DOMAIN sorted |-> sorted[j].count])
    IN [j \in DOMAIN sorted |->
          [key |-> sorted[j].key, voc |-> sorted[j].voc, count |-> sorted[j].count,
           ratio_nan |-> total_count = 0,
           ratio |-> IF total_count = 0 THEN 0 ELSE RoundedRatio(sorted[j].count, total_count)]]

\* lines 489-500: the aggregation dict names 'voc_id' and the first column.
\* Without a voc_id column agg raises KeyError; with voc_id as the first
\* column both dict literals keep one key and assigning two column names to
\* the one aggregated column raises ValueError.
AggRaises(t) == ~HasCol(t, "voc_id") \/ t.columns[1] = "voc_id"

create_detailed_analysis_table(fd, period_label, emotion_filter, category_filter, combo_filter, sort_order) ==
    LET table_df == ApplyFilters(fd, emotion_filter, category_filter, combo_filter)
        required_cols == RequiredCols(table_df)
        base == [section |-> "detail", state |-> "warning_no_data", label |-> period_label,
                 emotion_filter |-> emotion_filter, category_filter |-> category_filter,
                 combo_filter |-> combo_filter, sort_order |-> sort_order,
                 n_filtered |-> Len(table_df.rows), table |-> <<>>]
    IN IF Len(table_df.rows) > 0
       THEN IF required_cols # <<>>
            THEN IF AggRaises(table_df)
                 THEN [base EXCEPT !.state = "exception"]
                 ELSE [base EXCEPT !.state = "table",
                                   !.table = SummaryTable(table_df, required_cols, sort_order)]
            ELSE [base EXCEPT !.state = "warning_no_columns"]
       ELSE base

-----------------------------------------------------------------------------
(* The summary statistics *)

\* lines 535-540: the ten most frequent (major, minor) combinations
TopCombinations(fd) ==
    IF HasCol(fd, DAEBUNRYU) /\ HasCol(fd, JUNGBUNRYU)
    THEN LET sizes == groupby_size(fd.rows, <<DAEBUNRYU, JUNGBUNRYU>>)
             sorted == SortBy(sizes, [j \in DOMAIN sizes |-> 0 - sizes[j].count])
             top == Head_n(sorted, 10)
         IN [j \in DOMAIN top |->
               [key |-> top[j].key, count |-> top[j].count,
                ratio |-> Ratio(top[j].count, Len(fd.rows))]]
    ELSE <<>>

\* lines 554-562: the volume comment
VolumeComment(fd, period_label) ==
    LET total_voc == Len(fd.rows)
        voc_count == VocCount(fd, fd.rows)
    IN IF period_label = NUJEOK_LABEL
       THEN [kind |-> "volume", text |-> "year_total", n |-> voc_count, ratio |-> Ratio(0, 0)]
       ELSE IF total_voc > 1000
            THEN [kind |-> "volume", text |-> "many", n |-> total_voc, ratio |-> Ratio(0, 0)]
            ELSE IF total_voc > 500
                 THEN [kind |-> "volume", text |-> "normal", n |-> total_voc, ratio |-> Ratio(0, 0)]
                 ELSE [kind |-> "volume", text |-> "few", n |-> total_voc, ratio |-> Ratio(0, 0)]

\* lines 565-574: the negative-ratio comment (negative_ratio > 60, > 40, else)
EmotionComment(fd) ==
    LET negative_ratio == NegativeRatio(fd.rows)
    IN IF negative_ratio.num > 60 * negative_ratio.den
       THEN [kind |-> "negative", text |-> "urgent", n |-> 0, ratio |-> negative_ratio]
       ELSE IF negative_ratio.num > 40 * negative_ratio.den
            THEN [kind |-> "negative", text |-> "caution", n |-> 0, ratio |-> negative_ratio]
            ELSE [kind |-> "negative", text |-> "good", n |-> 0, ratio |-> negative_ratio]

\* lines 577-582: value_counts().index[0] of the major column
TopCategoryComment(fd) ==
    LET vc == value_counts(Col(fd.rows, DAEBUNRYU))
    IN [kind |-> "top_category", text |-> vc[1].value, n |-> vc[1].count,
        ratio |-> Ratio(vc[1].count, Len(fd.rows))]

\* lines 585-589: the major category with the most negative records
NegativeByCategory(fd) ==
    LET neg == Rows(fd, {i \in DOMAIN fd.rows : Eq(fd.rows[i][GAMJEONG], BUJEONG)})
    IN value_counts(Col(neg.rows, DAEBUNRYU))

Comments(fd, period_label) ==
    <<VolumeComment(fd, period_label)>>
    \o (IF HasCol(fd, GAMJEONG) THEN <<EmotionComment(fd)>> ELSE <<>>)
    \o (IF HasCol(fd, DAEBUNRYU) THEN <<TopCategoryComment(fd)>> ELSE <<>>)
    \o (IF HasCol(fd, GAMJEONG) /\ HasCol(fd, DAEBUNRYU) /\ NegativeByCategory(fd) # <<>>
        THEN <<[kind |-> "improve", text |-> NegativeByCategory(fd)[1].value, n |-> 0,
                ratio |-> Ratio(0, 0)]>>
        ELSE <<>>)

\* line 578: index[0] of an empty value_counts raises IndexError
SummaryRaises(fd) ==
    HasCol(fd, DAEBUNRYU) /\ value_counts(Col(fd.rows, DAEBUNRYU)) = <<>>

create_summary_statistics(fd, period_label) ==
    IF SummaryRaises(fd)
    THEN [section |-> "summary", state |-> "exception", label |-> period_label,
          top_combinations |-> TopCombinations(fd), comments |-> <<>>]
    ELSE [section |-> "summary", state |-> "ok", label |-> period_label,
          top_combinations |-> TopCombinations(fd), comments |-> Comments(fd, period_label)]

-----------------------------------------------------------------------------
(* main(): one script run, step by step, and what happens between runs *)

Blank == [section |-> "none", state |-> "ok"]
Unset == [df |-> [columns |-> <<>>, rows |-> <<>>], label |-> ""]
EmptyCache == {}

Exists(f) == f # NoFile

\* a rerun starts the script from its first line with an empty page
Rerun ==
    /\ pc' = "start"
    /\ df' = None
    /\ filtered' = Unset
    /\ view' = Blank
    /\ rendered' = <<>>

\* lines 602-626: the sidebar's file check; st.stop() when the file is absent
Sidebar ==
    /\ pc = "start"
    /\ pc' = IF Exists(file) THEN "auto" ELSE "no_file"
    /\ UNCHANGED <<file, mtime, cache, auto_refresh, manual_refresh, period_type,
                   df, filtered, view, rendered>>

\* AutoRefresh without the rerun: after the sleep the run goes on to the load
AutoRefreshFallsThrough ==
    /\ pc = "auto"
    /\ pc' = "manual"
    /\ UNCHANGED <<file, mtime, cache, auto_refresh, manual_refresh, period_type,
                   df, filtered, view, rendered>>

\* lines 630-633: the auto-refresh checkbox; checked, the run sleeps
AutoRefresh ==
    /\ pc = "auto"
    /\ pc' = IF auto_refresh THEN "sleeping" ELSE "manual"
    /\ UNCHANGED <<file, mtime, cache, auto_refresh, manual_refresh, period_type,
                   df, filtered, view, rendered>>

\* lines 633-634: time.sleep(300) returns and st.rerun() restarts the script
SleepDone ==
    /\ pc = "sleeping"
    /\ Rerun
    /\ UNCHANGED <<file, mtime, cache, auto_refresh, manual_refresh, period_type>>

\* lines 636-639: the manual refresh button; pressed, the cache is cleared
\* and the script restarts (the button reads False in the run that follows)
ManualRefresh ==
    /\ pc = "manual"
    /\ IF manual_refresh
       THEN /\ cache' = EmptyCache
            /\ manual_refresh' = FALSE
            /\ Rerun
       ELSE /\ pc' = "load"
            /\ UNCHANGED <<cache, manual_refresh, df, filtered, view, rendered>>
    /\ UNCHANGED <<file, mtime, auto_refresh, period_type>>

\* @st.cache_data: the memo is keyed by the argument (the path) alone; a
\* miss runs load_data on the file as it is now.  `read_at` records the
\* file's modification time at that read.
CachedLoad ==
    IF cache = EmptyCache
    THEN [read_at |-> mtime, result |-> load_data(file)]
    ELSE CHOOSE e \in cache : TRUE

\* lines 642-647: load, and st.stop() when it returned (None, None)
Load ==
    /\ pc = "load"
    /\ cache' = {CachedLoad}
    /\ df' = CachedLoad.result
    /\ pc' = IF CachedLoad.result.ok THEN "period" ELSE "load_failed"
    /\ UNCHANGED <<file, mtime, auto_refresh, manual_refresh, period_type,
                   filtered, view, rendered>>

\* lines 650-653: the period radio and get_filtered_data
Period ==
    /\ pc = "period"
    /\ filtered' = get_filtered_data(df.df, period_type)
    /\ pc' = "trend"
    /\ UNCHANGED <<file, mtime, cache, auto_refresh, manual_refresh, period_type,
                   df, view, rendered>>

\* a section's output is shown; an exception ends the run with the error shown
Show(out, next) ==
    /\ view' = out
    /\ rendered' = IF out.state = "exception" THEN rendered ELSE Append(rendered, out.section)
    /\ pc' = IF out.state = "exception" THEN "error" ELSE next
    /\ UNCHANGED <<file, mtime, cache, auto_refresh, manual_refresh, period_type,
                   df, filtered>>

RenderTrend ==
    /\ pc = "trend"
    /\ Show(create_trend_analysis(df.df), "overview")

RenderOverview ==
    /\ pc = "overview"
    /\ Show(create_overview(filtered.df, filtered.label), "distribution")

RenderDistribution ==
    /\ pc = "distribution"
    /\ Show(create_distribution_overview(filtered.df, filtered.label), "detail")

\* the four selectboxes hold any of the options they offer
RenderDetail ==
    /\ pc = "detail"
    /\ \E e \in Range(EmotionOptions(filtered.df)),
          c \in Range(CategoryOptions(filtered.df)),
          m \in Range(ComboOptions(filtered.df)),
          o \in Range(SortOptions) :
            Show(create_detailed_analysis_table(filtered.df, filtered.label, e, c, m, o),
                 "summary")

RenderSummary ==
    /\ pc = "summary"
    /\ Show(create_summary_statistics(filtered.df, filtered.label), "insight")

\* lines 667-703: the monthly comparison reads df['voc_id'] unguarded
create_insights(d, period) ==
    IF period = NUJEOK /\ ~HasCol(d, "voc_id")
    THEN [section |-> "insight", state |-> "exception"]
    ELSE [section |-> "insight", state |-> "ok"]

RenderInsight ==
    /\ pc = "insight"
    /\ Show(create_insights(df.df, period_type), "download")

\* lines 706-729: the columns of the download that the data has
create_download(fd) ==
    LET download_cols == <<"voc_id", "year_month", DAEBUNRYU, JUNGBUNRYU, GAMJEONG, "voc_answer_re">>
        available_cols == Filter(download_cols, Range(fd.columns))
    IN [section |-> "download", state |-> "ok", columns |-> available_cols,
        idx |-> Col(fd.rows, "_idx")]

RenderDownload ==
    /\ pc = "download"
    /\ Show(create_download(filtered.df), "done")

\* between runs: any widget interaction reruns the script
Idle == pc \in {"done", "error", "load_failed", "no_file"}

Interact ==
    /\ Idle
    /\ Rerun
    /\ UNCHANGED <<file, mtime, cache, auto_refresh, manual_refresh, period_type>>

\* the period radio is on the page once the run got past the load
SelectPeriod ==
    /\ pc \in {"done", "error"}
    /\ period_type' = IF period_type = HYEONWOL THEN NUJEOK ELSE HYEONWOL
    /\ Rerun
    /\ UNCHANGED <<file, mtime, cache, auto_refresh, manual_refresh>>

\* the checkbox is on the page once the file check passed; ticking or
\* unticking it interrupts a sleeping run
ToggleAutoRefresh ==
    /\ pc \in {"done", "error", "load_failed", "sleeping"}
    /\ auto_refresh' = ~auto_refresh
    /\ Rerun
    /\ UNCHANGED <<file, mtime, cache, manual_refresh, period_type>>

PressManualRefresh ==
    /\ pc \in {"done", "error", "load_failed"}
    /\ manual_refresh' = TRUE
    /\ Rerun
    /\ UNCHANGED <<file, mtime, cache, auto_refresh, period_type>>

\* another process rewrites the CSV: its modification time advances
MaxWrites == 2

WriteFile(f) ==
    /\ mtime < MaxWrites
    /\ file' = f
    /\ mtime' = mtime + 1
    /\ UNCHANGED <<cache, pc, auto_refresh, manual_refresh, period_type,
                   df, filtered, view, rendered>>

InitWith(files) ==
    /\ file \in files
    /\ mtime = 0
    /\ cache = EmptyCache
    /\ pc = "start"
    /\ auto_refresh = FALSE
    /\ manual_refresh = FALSE
    /\ period_type = HYEONWOL
    /\ df = None
    /\ filtered = Unset
    /\ view = Blank
    /\ rendered = <<>>

Run ==
    \/ Sidebar \/ AutoRefresh \/ SleepDone \/ ManualRefresh \/ Load \/ Period
    \/ RenderTrend \/ RenderOverview \/ RenderDistribution \/ RenderDetail
    \/ RenderSummary \/ RenderInsight \/ RenderDownload
    \/ Interact \/ SelectPeriod \/ ToggleAutoRefresh \/ PressManualRefresh

-----------------------------------------------------------------------------
(* The files the checks run on *)

RECURSIVE NonDecreasing(_, _, _)
\* the nondecreasing sequences of k numbers in lo..hi
NonDecreasing(k, lo, hi) ==
    IF k = 0 THEN {<<>>}
    ELSE UNION {{<<j>> \o t : t \in NonDecreasing(k - 1, j, hi)} : j \in lo..hi}

\* every file of 1..n rows drawn from the template rows, kept in template order
SortedFilesOf(header, templates, n) ==
    {[header |-> header, rows |-> [i \in DOMAIN ix |-> templates[ix[i]]]] :
        ix \in UNION {NonDecreasing(k, 1, Len(templates)) : k \in 1..n}}

\* the rows [c1 |-> a, c2 |-> b] for a in A and b in B, as a sequence
Cross(c1, A, c2, B) ==
    [i \in 1..(Len(A) * Len(B)) |->
        (c1 :> A[((i - 1) \div Len(B)) + 1]) @@ (c2 :> B[((i - 1) % Len(B)) + 1])]

\* each row of the sequence extended with the same cells
With(templates, cells) == [i \in DOMAIN templates |-> templates[i] @@ cells]

\* every file of 1..n rows, each row drawn from rowset
FilesOf(header, rowset, n) ==
    {[header |-> header, rows |-> r] : r \in UNION {[1..k -> rowset] : k \in 1..n}}

\* the life cycle: one-row files that differ in date and sentiment
LifeFiles ==
    FilesOf(<<"voc_start_dt", "voc_id", GAMJEONG, DAEBUNRYU, JUNGBUNRYU>>,
            [voc_start_dt : {"2025-01-15", "2024-12-31"}, voc_id : {"v1"},
             gamjeong : {GEUNGJEONG, BUJEONG}, daebunryu : {"A"}, jungbunryu : {"B"}],
            1)

Init == InitWith(LifeFiles \cup {NoFile})

Next == Run \/ \E f \in LifeFiles \cup {NoFile} : WriteFile(f)

Spec == Init /\ [][Next]_vars

\* the normalizer: raw dates and raw sentiment encodings
MaxNormRows == 3

NormFiles ==
    SortedFilesOf(<<"created_at", "voc_id", "sentiment">>,
                  With(Cross("sentiment", <<"positive", "1", "-1", GEUNGJEONG, "angry", "">>,
                             "created_at", <<"2025-02-10", "2025-01-15", "2024-12-31", "hi">>),
                       [voc_id |-> "v1"]),
                  MaxNormRows)
    \cup SortedFilesOf(<<"memo", GAMJEONG>>,
                       Cross("memo", <<"hi", "2025-01-15">>, GAMJEONG, <<"pos", BUJEONG>>),
                       MaxNormRows)

InitNorm == InitWith(NormFiles \cup {NoFile})

SpecNorm == InitNorm /\ [][Run]_vars

\* the trend: two months, the canonical sentiments, another value, no value
MaxTrendRows == 3

TrendFiles ==
    SortedFilesOf(<<"voc_start_dt", "voc_id", GAMJEONG>>,
                  With(Cross("voc_start_dt", <<"2025-01-15", "2025-02-10">>,
                             GAMJEONG, <<GEUNGJEONG, JUNGRIP, BUJEONG, "angry", "">>),
                       [voc_id |-> "v1"]),
                  MaxTrendRows)
    \cup SortedFilesOf(<<"voc_start_dt", "voc_id">>,
                       With(Cross("voc_start_dt", <<"2025-01-15", "2025-02-10">>,
                                  "voc_id", <<"v1", "v2">>), <<>>),
                       MaxTrendRows)

InitTrend == InitWith(TrendFiles \cup {NoFile})

SpecTrend == InitTrend /\ [][Run]_vars

\* the detail table: up to MaxDetailRows rows over six (sentiment, major)
\* groups; and short files with missing categories, names that hold the
\* separator, no id column, the id column first, a first column with gaps
MaxDetailRows == 6
MaxComboRows == 2

GroupFiles ==
    SortedFilesOf(<<"voc_start_dt", "voc_id", GAMJEONG, DAEBUNRYU>>,
                  With(Cross(GAMJEONG, <<GEUNGJEONG, JUNGRIP, BUJEONG>>,
                             DAEBUNRYU, <<"A", "B">>),
                       [voc_start_dt |-> "2025-01-15", voc_id |-> "v1"]),
                  MaxDetailRows)

ComboTemplates ==
    LET mm == Cross(DAEBUNRYU, <<"A", "B", "">>, JUNGBUNRYU, <<"A", "A > B", "">>)
    IN With(mm, [gamjeong |-> GEUNGJEONG]) \o With(mm, [gamjeong |-> BUJEONG])

ComboFiles ==
    SortedFilesOf(<<"voc_start_dt", "voc_id", GAMJEONG, DAEBUNRYU, JUNGBUNRYU>>,
                  With(ComboTemplates, [voc_start_dt |-> "2025-01-15", voc_id |-> "v1"]),
                  MaxComboRows)

LayoutTemplates ==
    With(Cross("memo", <<"hi", "">>, "voc_id", <<"v1", "v2">>),
         [voc_start_dt |-> "2025-01-15", gamjeong |-> BUJEONG, daebunryu |-> "A"])

LayoutFiles ==
    UNION {SortedFilesOf(h, LayoutTemplates, MaxComboRows) :
             h \in {<<"voc_id", "voc_start_dt", "memo", GAMJEONG, DAEBUNRYU>>,
                    <<"memo", "voc_start_dt", "voc_id", GAMJEONG, DAEBUNRYU>>,
                    <<GAMJEONG, "voc_start_dt", "voc_id", "memo", DAEBUNRYU>>}}
    \cup SortedFilesOf(<<"voc_start_dt", "memo", GAMJEONG, DAEBUNRYU>>,
                       With(Cross("memo", <<"hi", "">>, DAEBUNRYU, <<"A", "B">>),
                            [voc_start_dt |-> "2025-01-15", gamjeong |-> BUJEONG]),
                       MaxComboRows)
    \cup SortedFilesOf(<<"voc_start_dt", "voc_id">>,
                       With(Cross("voc_start_dt", <<"2025-01-15", "2025-02-10">>,
                                  "voc_id", <<"v1", "v2">>), <<>>),
                       MaxComboRows)

DetailFiles == GroupFiles \cup ComboFiles \cup LayoutFiles

InitDetail == InitWith(DetailFiles \cup {NoFile})

SpecDetail == InitDetail /\ [][Run]_vars

\* the summary: files with and without the sentiment and the major column,
\* two months, majors and sentiments with gaps
MaxSummaryRows == 3

SummaryFiles ==
    SortedFilesOf(<<"voc_start_dt", "voc_id", GAMJEONG, DAEBUNRYU, JUNGBUNRYU>>,
                  With(Cross(GAMJEONG, <<GEUNGJEONG, BUJEONG, "">>,
                             DAEBUNRYU, <<"A", "B", "">>),
                       [voc_start_dt |-> "2025-01-15", voc_id |-> "v1", jungbunryu |-> "A"])
                  \o <<[voc_start_dt |-> "2025-02-10", voc_id |-> "v2", gamjeong |-> GEUNGJEONG,
                        daebunryu |-> "", jungbunryu |-> "A"]>>,
                  MaxSummaryRows)
    \cup SortedFilesOf(<<"voc_start_dt", "voc_id", GAMJEONG>>,
                       With(Cross("voc_start_dt", <<"2025-01-15", "2025-02-10">>,
                                  GAMJEONG, <<GEUNGJEONG, BUJEONG, "">>),
                            [voc_id |-> "v1"]),
                       MaxSummaryRows)
    \cup SortedFilesOf(<<"voc_start_dt", "voc_id", DAEBUNRYU>>,
                       With(Cross("voc_start_dt", <<"2025-01-15", "2025-02-10">>,
                                  DAEBUNRYU, <<"A", "B", "">>),
                            [voc_id |-> "v1"]),
                       MaxSummaryRows)
    \cup SortedFilesOf(<<"voc_start_dt", "voc_id">>,
                       With(Cross("voc_start_dt", <<"2025-01-15", "2025-02-10">>,
                                  "voc_id", <<"v1", "v2">>), <<>>),
                       MaxSummaryRows)

InitSummary == InitWith(SummaryFiles \cup {NoFile})

SpecSummary == InitSummary /\ [][Run]_vars

\* the top combination: records in any order over two majors and two
\* minors, either of them possibly missing
MaxTopRows == 3

TopFiles ==
    FilesOf(<<"voc_start_dt", "voc_id", DAEBUNRYU, JUNGBUNRYU>>,
            [voc_start_dt : {"2025-01-15"}, voc_id : {"v1"},
             daebunryu : {"A", "B", ""}, jungbunryu : {"A", "B", ""}],
            MaxTopRows)

InitTop == InitWith(TopFiles \cup {NoFile})

SpecTop == InitTop /\ [][Run]_vars

-----------------------------------------------------------------------------
(* Claims *)

Canonical == {GEUNGJEONG, JUNGRIP, BUJEONG}

\* the rows of the loaded dataset in month ym
MonthRows(ym) == Filter(df.df.rows, {r \in Range(df.df.rows) : r["year_month"] = ym})

\* a / b <= n, a / b >= 0, and the sum of three ratios against 100
RatioIn0To100(r) == r.den > 0 /\ 0 <= r.num /\ r.num <= 100 * r.den
RatioIsZero(r) == r.num = 0
RatioSumNum(e) ==
    e.positive_ratio.num * e.neutral_ratio.den * e.negative_ratio.den
    + e.neutral_ratio.num * e.positive_ratio.den * e.negative_ratio.den
    + e.negative_ratio.num * e.positive_ratio.den * e.neutral_ratio.den
RatioSumDen(e) == e.positive_ratio.den * e.neutral_ratio.den * e.negative_ratio.den

\* C1: in the monthly trend, for every month of the loaded dataset, each of
\* the three sentiment ratios is within [0, 100], their sum is at most 100,
\* it is exactly 100 when every record of the month has a canonical
\* sentiment, and all three are 0 when the month has no sentiment value or
\* the dataset no sentiment column.
C1_TrendRatios ==
    view.section = "trend" =>
        /\ {view.monthly[k].year_month : k \in DOMAIN view.monthly}
             = Range(Col(df.df.rows, "year_month"))
        /\ \A k \in DOMAIN view.monthly :
            LET e == view.monthly[k]
                rows == MonthRows(e.year_month)
                has == HasCol(df.df, GAMJEONG)
            IN /\ RatioIn0To100(e.positive_ratio)
               /\ RatioIn0To100(e.neutral_ratio)
               /\ RatioIn0To100(e.negative_ratio)
               /\ RatioSumNum(e) <= 100 * RatioSumDen(e)
               /\ (has /\ \A r \in Range(rows) : r[GAMJEONG] \in Canonical)
                     => RatioSumNum(e) = 100 * RatioSumDen(e)
               /\ (~has \/ \A r \in Range(rows) : r[GAMJEONG] = NaN)
                     => /\ RatioIsZero(e.positive_ratio)
                        /\ RatioIsZero(e.neutral_ratio)
                        /\ RatioIsZero(e.negative_ratio)

\* C1 witness: a trend with a month whose records are all canonical, of two
\* different sentiments, and another month with no sentiment value
C1_Witness ==
    /\ view.section = "trend"
    /\ HasCol(df.df, GAMJEONG)
    /\ \E j, k \in DOMAIN view.monthly :
        /\ \A r \in Range(MonthRows(view.monthly[j].year_month)) : r[GAMJEONG] \in Canonical
        /\ view.monthly[j].positive_ratio.num > 0
        /\ view.monthly[j].negative_ratio.num > 0
        /\ RatioSumNum(view.monthly[j]) = 100 * RatioSumDen(view.monthly[j])
        /\ \A r \in Range(MonthRows(view.monthly[k].year_month)) : r[GAMJEONG] = NaN
        /\ RatioIsZero(view.monthly[k].positive_ratio)

\* the sum of the detail table's ratio column, in tenths of a percent
RatioColumnSum == SumSeq([j \in DOMAIN view.table |-> view.table[j].ratio])

Abs(x) == IF x < 0 THEN 0 - x ELSE x

\* a detail table was returned with at least one group and numeric ratios
DetailTableShown ==
    /\ view.section = "detail"
    /\ view.state = "table"
    /\ view.table # <<>>
    /\ \A j \in DOMAIN view.table : ~view.table[j].ratio_nan

\* C2 as stated: the ratio column of a returned table sums to within
\* 100.0 +- 0.1, whatever the number of groups and their sizes.
C2_RatioSumWithinTenth ==
    DetailTableShown => Abs(RatioColumnSum - 1000) <= 1

\* C2 amended: the ratio column of a returned table of k groups (with a
\* positive record-count total) sums to within 100.0 +- 0.05 * k, each ratio
\* being count / total * 100 rounded to one decimal.
C2_RatioSumWithinHalfTenthPerGroup ==
    DetailTableShown =>
        /\ 2 * Abs(RatioColumnSum - 1000) <= Len(view.table)
        /\ \A j \in DOMAIN view.table :
            LET total == SumSeq([k \in DOMAIN view.table |-> view.table[k].count])
            IN 2 * Abs(view.table[j].ratio * total - view.table[j].count * 1000) <= total

\* C2 witness: six groups of one record each, 16.7 each, 100.2 in all
C2_Witness ==
    /\ DetailTableShown
    /\ Len(view.table) = 6
    /\ \A j \in DOMAIN view.table : view.table[j].count = 1 /\ view.table[j].ratio = 167
    /\ RatioColumnSum = 1002

\* C3: the cache of load_data is invalidated when the file's modification
\* time changes: every load hands the run a dataset that was read from the
\* file at its current modification time.
C3_LoadReadsCurrentFile ==
    [][(pc = "load" /\ pc' # "load") => \A e \in cache' : e.read_at = mtime']_vars

\* the file has one of the candidate date columns
HasDateColumn(f) == \E k \in DOMAIN date_columns : date_columns[k] \in Range(f.header)

\* the candidate of highest priority among the file's columns
ChosenDateColumn(f) ==
    date_columns[CHOOSE k \in DOMAIN date_columns :
                    /\ date_columns[k] \in Range(f.header)
                    /\ \A j \in 1..(k - 1) : date_columns[j] \notin Range(f.header)]

\* positions of the file's rows whose date does not parse, and of those in 2025
Unparsable(f) ==
    {i \in DOMAIN f.rows : f.rows[i][ChosenDateColumn(f)] \notin DOMAIN DateTable}
TargetYearRows(f) ==
    {i \in DOMAIN f.rows \ Unparsable(f) :
        DateTable[f.rows[i][ChosenDateColumn(f)]].year = TARGET_YEAR}

Loadable(f) == HasDateColumn(f) /\ TargetYearRows(f) # {}

\* the run is past its call of load_data
PastLoad == pc \notin {"start", "no_file", "auto", "sleeping", "manual", "load"}

\* C4: load_data yields a dataset only if a candidate date column is present
\* and some row falls in 2025; without a date column, or with an empty 2025
\* slice, it returns the failure value and main halts with no section rendered.
C4_LoadFailureHalts ==
    /\ df.ok => Loadable(file)
    /\ (PastLoad /\ ~Loadable(file)) =>
          /\ pc = "load_failed"
          /\ df = None
          /\ rendered = <<>>
          /\ view = Blank
    /\ rendered # <<>> => df.ok

\* C4 witness: a file with a date column whose only parsable rows are of
\* 2024, the load failed, nothing rendered
C4_Witness ==
    /\ pc = "load_failed"
    /\ HasDateColumn(file)
    /\ DOMAIN file.rows \ Unparsable(file) # {}
    /\ TargetYearRows(file) = {}
    /\ rendered = <<>>

\* the numbers load_data reports
ReportedCounts == {df.info.total, df.info.n2025, df.info.emotions, df.info.majors}

\* C5 as stated: the rows dropped for an unparsable date are counted in a
\* drop count: their number is among the numbers load_data reports.
C5_DropCounted ==
    (df.ok /\ Unparsable(file) # {}) => Cardinality(Unparsable(file)) \in ReportedCounts

\* C5 amended: a row whose date does not parse is dropped: it is no row of
\* the loaded dataset, of the period's records or of the download, the trend
\* and the overview count only the remaining rows, and the load succeeds
\* whenever a row of 2025 remains.  No drop count is kept: the total reported
\* is the number of rows left after the drop.
C5_UnparsableRowsDropped ==
    /\ df.ok =>
          /\ \A r \in Range(df.df.rows) : r["_idx"] \notin Unparsable(file)
          /\ df.info.total = Len(file.rows) - Cardinality(Unparsable(file))
          /\ Len(df.df.rows) = Cardinality(TargetYearRows(file))
    /\ filtered # Unset => Range(filtered.df.rows) \subseteq Range(df.df.rows)
    /\ view.section = "trend" =>
          SumSeq([k \in DOMAIN view.monthly |-> view.monthly[k].classification_count])
            = Cardinality(TargetYearRows(file))
    /\ view.section = "overview" =>
          view.classification_count <= Cardinality(TargetYearRows(file))
    /\ view.section = "download" => Range(view.idx) \subseteq TargetYearRows(file)
    /\ (PastLoad /\ HasDateColumn(file) /\ TargetYearRows(file) # {}) => df.ok

\* C5 witness: a file with an unparsable row and two rows of 2025, the run
\* through to the download
C5_Witness ==
    /\ pc = "done"
    /\ view.section = "download"
    /\ Cardinality(Unparsable(file)) = 1
    /\ df.info.total = 2
    /\ Len(view.idx) >= 1

\* the raw sentiment column load_data normalizes, by its priority
SentimentColumn(f) ==
    IF GAMJEONG \in Range(f.header) THEN GAMJEONG
    ELSE IF "emotion" \in Range(f.header) THEN "emotion"
    ELSE "sentiment"

\* the canonical value of a raw encoding of the vocabulary
CanonicalOf(raw) ==
    CASE raw \in {"positive", "pos", "1"} -> GEUNGJEONG
      [] raw \in {"negative", "neg", "-1"} -> BUJEONG
      [] raw \in {"neutral", "neu", "0"} -> JUNGRIP
      [] OTHER -> raw

\* C6: in the loaded dataset every record's sentiment is the canonical value
\* of its raw encoding (positive/pos/1, negative/neg/-1, neutral/neu/0), and
\* a raw value outside the vocabulary, a canonical label included, is kept.
C6_SentimentNormalized ==
    (df.ok /\ HasCol(df.df, GAMJEONG)) =>
        \A r \in Range(df.df.rows) :
            LET raw == file.rows[r["_idx"]][SentimentColumn(file)]
            IN raw # "" => r[GAMJEONG] = CanonicalOf(raw)

\* the month numbers of the loaded dataset
Months == {r["month"] : r \in Range(df.df.rows)}

\* C7: the current-month period gives exactly the records of the latest
\* month present, in their order, labelled with that month's key; the
\* year-to-date period gives the whole dataset with the year-total label;
\* either result is a subset of the dataset and is not empty.
C7_PeriodScope ==
    filtered # Unset =>
        /\ filtered.df.rows # <<>>
        /\ Range(filtered.df.rows) \subseteq Range(df.df.rows)
        /\ IF period_type = HYEONWOL
           THEN /\ filtered.df.rows =
                     Filter(df.df.rows, {r \in Range(df.df.rows) : \A m \in Months : m <= r["month"]})
                /\ \A r \in Range(filtered.df.rows) : filtered.label = r["year_month"]
           ELSE /\ filtered.df = df.df
                /\ filtered.label = NUJEOK_LABEL

\* C7 witness: a dataset whose first row is not of the latest month, scoped
\* to the current month: fewer records than the dataset has
C7_Witness ==
    /\ filtered # Unset
    /\ period_type = HYEONWOL
    /\ df.df.rows[1]["month"] = 1
    /\ filtered.label = "2025-02"
    /\ Len(filtered.df.rows) < Len(df.df.rows)

\* the text a row shows in the major > minor selectbox
ComboText(r) == Str(r[DAEBUNRYU]) \o SEP \o Str(r[JUNGBUNRYU])

\* the record passes every filter the FilterState chooses
MatchesFilterState(d, r, v) ==
    /\ (v.emotion_filter # JEONCHE /\ HasCol(d, GAMJEONG)) => Eq(r[GAMJEONG], v.emotion_filter)
    /\ (v.category_filter # JEONCHE /\ HasCol(d, DAEBUNRYU)) => Eq(r[DAEBUNRYU], v.category_filter)
    /\ v.combo_filter # JEONCHE => ComboText(r) = v.combo_filter

MatchingRows(v) ==
    Filter(filtered.df.rows, {r \in Range(filtered.df.rows) : MatchesFilterState(filtered.df, r, v)})

\* C8: when the conjunction of the chosen filters matches no record, the
\* detail table ends in the no-results warning, with no exception and no table.
C8_NoMatchGivesEmptyResult ==
    (view.section = "detail" /\ MatchingRows(view) = <<>>) =>
        view.state = "warning_no_data" /\ view.table = <<>>

\* the key of a record under the grouping columns present
GroupKey(d, r) == LET cols == RequiredCols(d) IN [k \in DOMAIN cols |-> r[cols[k]]]

\* C9: for a non-empty filtered set the detail table returns one row per
\* group of the present {sentiment, major, minor} columns, with the group's
\* record count and distinct-id count, sorted by record count as requested,
\* the counts adding up to the number of filtered records; with or without
\* an id column, whatever the first column of the file.
C9_DetailTableGroups ==
    (view.section = "detail" /\ MatchingRows(view) # <<>> /\ RequiredCols(filtered.df) # <<>>) =>
        LET rows == MatchingRows(view)
            keys == {GroupKey(filtered.df, r) : r \in Range(rows)}
            of(key) == Filter(rows, {r \in Range(rows) : GroupKey(filtered.df, r) = key})
        IN /\ view.state = "table"
           /\ {view.table[j].key : j \in DOMAIN view.table} = keys
           /\ Len(view.table) = Cardinality(keys)
           /\ \A j \in DOMAIN view.table :
                /\ view.table[j].count = Len(of(view.table[j].key))
                /\ HasCol(filtered.df, "voc_id") =>
                     view.table[j].voc = NUnique(Col(of(view.table[j].key), "voc_id"))
           /\ SumSeq([j \in DOMAIN view.table |-> view.table[j].count]) = Len(rows)
           /\ \A i, j \in DOMAIN view.table :
                i < j => IF view.sort_order = "ascending"
                         THEN view.table[i].count <= view.table[j].count
                         ELSE view.table[i].count >= view.table[j].count

\* the kinds of the comments shown, in order
CommentKinds == [j \in DOMAIN view.comments |-> view.comments[j].kind]

\* C10: for every non-empty period-scoped dataset and either period, the
\* summary returns between 3 and 5 comments, in the order volume, negative
\* tier, dominant category, actionable comment.
C10_ThreeToFiveComments ==
    (view.section = "summary" /\ filtered.df.rows # <<>>) =>
        /\ view.state = "ok"
        /\ Len(view.comments) \in 3..5
        /\ \E n \in 3..4 :
             CommentKinds = SubSeq(<<"volume", "negative", "top_category", "improve">>, 1, n)

\* the negative and the sentiment-bearing records among the given rows
NegativeCount(rows) == Cardinality({i \in DOMAIN rows : rows[i][GAMJEONG] = BUJEONG})
SentimentCount(rows) == Cardinality({i \in DOMAIN rows : rows[i][GAMJEONG] # NaN})

\* the tier of the negative share of the period's records: over 60 %, over
\* 40 %, otherwise
TierOf(rows) ==
    IF NegativeCount(rows) * 100 > 60 * SentimentCount(rows) THEN "urgent"
    ELSE IF NegativeCount(rows) * 100 > 40 * SentimentCount(rows) THEN "caution"
    ELSE "good"

\* the comments of the negative tier among those shown
TierComments == {j \in DOMAIN view.comments : view.comments[j].kind = "negative"}

\* C11: with a sentiment column the summary shows exactly one negative-tier
\* comment, its tier that of the negative share of the period's records
\* alone (over 60 %, over 40 %, otherwise good); and the overview of a period
\* without a negative record shows a negative ratio of 0.
C11_NegativeTierOfPeriod ==
    /\ (view.section = "summary" /\ HasCol(filtered.df, GAMJEONG)) =>
          /\ Cardinality(TierComments) = 1
          /\ \A j \in TierComments : view.comments[j].text = TierOf(filtered.df.rows)
    /\ (view.section = "overview" /\ HasCol(filtered.df, GAMJEONG)
          /\ NegativeCount(filtered.df.rows) = 0) => view.negative_ratio.num = 0

\* the period's records that have both a major and a minor, in order
ComboRows == Filter(filtered.df.rows,
                    {r \in Range(filtered.df.rows) : r[DAEBUNRYU] # NaN /\ r[JUNGBUNRYU] # NaN})

ComboOf(r) == <<r[DAEBUNRYU], r[JUNGBUNRYU]>>

\* the number of the period's records of a combination
ComboCount(key) == Cardinality({i \in DOMAIN ComboRows : ComboOf(ComboRows[i]) = key})

\* the combinations with the highest record count
TopCombos ==
    {ComboOf(ComboRows[i]) : i \in {i \in DOMAIN ComboRows :
        \A j \in DOMAIN ComboRows : ComboCount(ComboOf(ComboRows[j])) <= ComboCount(ComboOf(ComboRows[i]))}}

OverviewWithCombos ==
    /\ view.section = "overview"
    /\ HasCol(filtered.df, DAEBUNRYU) /\ HasCol(filtered.df, JUNGBUNRYU)
    /\ ComboRows # <<>>

\* C12 as stated: the overview's top combination has the highest record
\* count of the period, and of several with that count it is the one whose
\* first record comes earliest in the dataset.
C12_TopComboFirstEncountered ==
    OverviewWithCombos =>
        /\ view.top_category \in TopCombos
        /\ \E i \in DOMAIN ComboRows :
             /\ ComboOf(ComboRows[i]) = view.top_category
             /\ \A j \in 1..(i - 1) : ComboOf(ComboRows[j]) \notin TopCombos

\* C12 amended: the overview's top combination has the highest record count
\* among the period's records that have both a major and a minor, and of
\* several with that count it is the first in ascending (major, minor) order;
\* there is none when no record has both.
C12_TopComboSmallestKey ==
    /\ OverviewWithCombos =>
          /\ view.top_category \in TopCombos
          /\ \A key \in TopCombos : KeyRank(view.top_category) <= KeyRank(key)
    /\ (view.section = "overview" /\ ComboRows = <<>>) => view.top_category = <<>>

\* C12 witness: two combinations share the highest count, the record of the
\* one shown comes after a record of the other
C12_Witness ==
    /\ OverviewWithCombos
    /\ Cardinality(TopCombos) >= 2
    /\ ComboOf(ComboRows[1]) \in TopCombos
    /\ ComboOf(ComboRows[1]) # view.top_category

\* the major column is there and holds no value in the given records
NoMajorValues(d) == HasCol(d, DAEBUNRYU) /\ \A r \in Range(d.rows) : r[DAEBUNRYU] = NaN

\* C13: with no major value to rank, every top-N selection is empty and
\* raises nothing: the trend's top 3 majors, the distribution's top 10 and
\* top 5, the summary's top 10 combinations and its dominant and
\* most-negative major.
C13_TopNOfNothingIsEmpty ==
    /\ (view.section = "trend" /\ NoMajorValues(df.df)) =>
          view.state = "ok" /\ view.traces = <<>>
    /\ (view.section = "distribution" /\ NoMajorValues(filtered.df)) =>
          /\ view.state = "ok"
          /\ view.category_counts = <<>>
          /\ view.sunburst = <<>>
          /\ view.minors = <<>>
    /\ (view.section = "summary" /\ NoMajorValues(filtered.df)) =>
          /\ view.state = "ok"
          /\ view.top_combinations = <<>>
          /\ \A j \in DOMAIN view.comments : view.comments[j].kind \in {"volume", "negative"}

\* C14: while the auto-refresh checkbox is checked, a run that reads it
\* sleeps and then ends in a rerun, before load_data and before any section;
\* no run renders a section or holds a loaded dataset, and no step changes
\* the cache: the cache is emptied only by the manual refresh button, which
\* is reached only with the checkbox unchecked.
C14_AutoRefreshNeverRenders ==
    /\ [](auto_refresh =>
            /\ pc \in {"start", "no_file", "auto", "sleeping"}
            /\ rendered = <<>>
            /\ view = Blank
            /\ df = None)
    /\ [][(pc = "auto" /\ auto_refresh /\ pc' # pc) => pc' = "sleeping"]_vars
    /\ [][(pc = "sleeping" /\ pc' # pc) => (pc' = "start" /\ rendered' = <<>>)]_vars
    /\ [][auto_refresh => cache' = cache]_vars
    /\ [][(cache # EmptyCache /\ cache' = EmptyCache) =>
            (pc = "manual" /\ manual_refresh /\ ~auto_refresh)]_vars

\* C14 witness: a run sleeping with the checkbox checked, after the file
\* changed, the cache still holding the dataset an earlier run loaded
C14_Witness ==
    /\ pc = "sleeping"
    /\ auto_refresh
    /\ cache # EmptyCache
    /\ \E e \in cache : e.read_at < mtime

====
